---- MODULE Spec2Model ----
(***************************************************************************)
(* Credential and token lifecycle of the auth microservice: the register,  *)
(* login and verify handlers with the repository, hasher and token         *)
(* adapters they call.  Every handler is cut at its awaits, so that        *)
(* invocations interleave where the code can be suspended.                 *)
(***************************************************************************)
EXTENDS Integers, Sequences, FiniteSets, TLC

VARIABLES
    store,    \* rows of the user table behind PrismaService
    now,      \* the clock, in the unit of a token's iat/exp claims
    nextId,   \* number of identifiers randomUUID has handed out so far
    held,     \* the tokens the callers have kept of those they were given
    renewed,  \* history, kept under SpecNoted: the held tokens verify has renewed
    past,     \* history, kept under SpecAfter: the registers that stored a row
    entity,   \* a User object in memory and the last updateName called on it
    removal,  \* the last call of the repository's delete and how it ended
    inv       \* the handler invocations in flight, by slot

vars == <<store, now, nextId, held, renewed, past, entity, removal, inv>>

(* ----------------------------- bounds --------------------------------- *)

MaxTime == 2
MaxIds == 2
MaxHeld == 1
MaxNameLen == 3

\* the invocations that can be in flight together
Procs == {1, 2}

Emails == {"ada@x.io", "old@x.io"}
Names == {"Ada"}
Passwords == {"Str0ng!Pass", "0ther!Pass"}

(* --------------------------- configuration ---------------------------- *)

JwtSecret == "JWT_SECRET"
ForeignSecret == "not-the-secret"
\* signOptions.expiresIn, in clock ticks
ExpiresIn == 2

(* ------------------------------ values -------------------------------- *)

\* user.password: undefined, the empty string, or a bcrypt string
Undefined == <<"undefined">>
EmptyString == <<>>

\* a hasher that hands the text back
BcryptHash_Identity(plainText, salt) == <<plainText>>

\* bcrypt.hash(plainText, saltRounds) with the salt the call drew: the salt is
\* readable in the result, the plain text is only inside the digest
BcryptHash(plainText, salt) == <<"$2b$10$", salt, <<"digest", plainText, salt>>>>

IsBcryptString(hash) == Len(hash) = 3 /\ hash[1] = "$2b$10$"

\* a comparison that finds every text to match
BcryptCompare_Always(plainText, hash) == TRUE

\* a comparison that hashes plainText with a salt of its own
BcryptCompare_OwnSalt(plainText, hash) ==
    /\ IsBcryptString(hash)
    /\ BcryptHash(plainText, <<"salt", 0>>) = hash

\* bcrypt.compare(plainText, hash): hashes plainText again with the salt read
\* from hash; false for a string that is no bcrypt hash
BcryptCompare(plainText, hash) ==
    /\ IsBcryptString(hash)
    /\ BcryptHash(plainText, hash[2]) = hash

\* new User(id, email, name, password, isActive = true)
User(id, email, name, password, isActive) ==
    [id |-> id, email |-> email, name |-> name, password |-> password,
     isActive |-> isActive]

\* the user built without the identifier that was generated
NewUser_NoId(id, email, name, password) == User(0, email, name, password, TRUE)

\* the constructor called with email and name in each other's place
NewUser_Swapped(id, email, name, password) == User(id, name, email, password, TRUE)

NewUser(id, email, name, password) == User(id, email, name, password, TRUE)

\* PrismaUserRepository.mapToDomain on a row that was found
mapToDomain(prismaUser) ==
    User(prismaUser.id, prismaUser.email, prismaUser.name, prismaUser.password,
         prismaUser.isActive)

\* PrismaUserRepository.mapToPrismaCreateData: password ?? ''
mapToPrismaCreateData(user) ==
    [id |-> user.id, email |-> user.email, name |-> user.name,
     password |-> IF user.password = Undefined THEN EmptyString ELSE user.password,
     isActive |-> user.isActive]

\* !user.password
NoPassword(user) == user.password \in {Undefined, EmptyString}

\* a row written before this service hashed passwords: its password column is ''
LegacyRow ==
    [id |-> 9, email |-> "old@x.io", name |-> "Old", password |-> EmptyString,
     isActive |-> TRUE]

(* ------------------------------ errors -------------------------------- *)

\* new RpcException({status, message})
RpcException(status, message) == [rpc |-> TRUE, status |-> status, message |-> message]

\* any other Error: it has a message and no status
PlainError(message) == [rpc |-> FALSE, status |-> 0, message |-> message]

\* nothing was thrown
NoError == [rpc |-> FALSE, status |-> 0, message |-> <<>>]

NoView == [id |-> 0, email |-> "", name |-> ""]
NoToken == [wf |-> FALSE, claims |-> [id |-> 0], sig |-> <<>>]

NoResult == [kind |-> "none", status |-> 0, message |-> <<>>, user |-> NoView,
             token |-> NoToken]

\* AllExceptionsFilter, the global filter: what goes out to the caller for an
\* exception caught at time t
AllExceptionsFilter(exception, t) ==
    [status |-> exception.status, message |-> exception.message, timestamp |-> t]

NoEnvelope == [status |-> 0, message |-> <<>>, timestamp |-> 0]

\* delete has not been called
NoRemoval == [id |-> 0, kind |-> "none", status |-> 0, message |-> <<>>]

\* what the caller gets when the handler throws err
Thrown(err) == [kind |-> "error", status |-> err.status, message |-> err.message,
                user |-> NoView, token |-> NoToken]

\* what the caller gets when the handler returns a DTO
Returned(dto) == [kind |-> "ok", status |-> 0, message |-> <<>>, user |-> dto.user,
                  token |-> dto.token]

(* ---------------------------- User entity ---------------------------- *)

\* a name as updateName sees it: a string, character by character
Whitespace == {" ", "\t"}
Chars == Whitespace \cup {"a"}

RECURSIVE NamesOfLen(_)
NamesOfLen(n) ==
    IF n = 0 THEN {<<>>}
    ELSE {Append(s, c) : s \in NamesOfLen(n - 1), c \in Chars}

NameStrings == UNION {NamesOfLen(n) : n \in 0 .. MaxNameLen}

\* String.prototype.trim
RECURSIVE TrimStart(_)
TrimStart(s) ==
    IF s # <<>> /\ Head(s) \in Whitespace THEN TrimStart(Tail(s)) ELSE s

RECURSIVE TrimEnd(_)
TrimEnd(s) ==
    IF s # <<>> /\ s[Len(s)] \in Whitespace THEN TrimEnd(SubSeq(s, 1, Len(s) - 1)) ELSE s

\* a trim of the start only
Trim_StartOnly(s) == TrimStart(s)

Trim(s) == TrimEnd(TrimStart(s))

\* User.updateName: if (!newName || newName.trim().length === 0) throw
updateNameThrows(newName) ==
    \/ newName = Undefined
    \/ newName = <<>>
    \/ Len(Trim(newName)) = 0

NameEmptyError == PlainError(<<"User name cannot be empty.">>)

\* this.name = newName.trim()
updateName(user, newName) == [user EXCEPT !.name = Trim(newName)]

\* no updateName was called yet on the user in memory
NoArgument == <<"none">>

NoEntity ==
    [user |-> User(0, "", <<>>, Undefined, TRUE), before |-> User(0, "", <<>>, Undefined, TRUE),
     newName |-> NoArgument, error |-> NoError]

(* ------------------------------ tokens -------------------------------- *)

\* HMAC of the encoded header and claims under a secret
Hmac(secret, claims) == <<secret, claims>>

\* a token string: header.claims.signature, or a string that is not of that shape
Jwt(claims, sig) == [wf |-> TRUE, claims |-> claims, sig |-> sig]

Malformed == NoToken

\* jwtService.sign(payload) with signOptions {expiresIn}: the claims are the
\* payload's own fields followed by iat and exp; a payload that already has an
\* exp cannot be signed with expiresIn
SignFails(payload) == "exp" \in DOMAIN payload

\* the timestamps taken once, when the module was set up
Sign_NoClock(payload, t) ==
    LET claims == payload @@ [iat |-> 0, exp |-> ExpiresIn]
    IN  Jwt(claims, Hmac(JwtSecret, claims))

\* expiresIn taken for the time of expiry
Sign_AbsoluteExpiry(payload, t) ==
    LET claims == payload @@ [iat |-> t, exp |-> ExpiresIn]
    IN  Jwt(claims, Hmac(JwtSecret, claims))

Sign(payload, t) ==
    LET claims == payload @@ [iat |-> t, exp |-> t + ExpiresIn]
    IN  Jwt(claims, Hmac(JwtSecret, claims))

\* verification with ignoreExpiration
JwtVerifyError_IgnoreExpiration(token, t) ==
    IF ~token.wf THEN <<"jwt malformed">>
    ELSE IF token.sig # Hmac(JwtSecret, token.claims) THEN <<"invalid signature">>
    ELSE <<>>

\* verification against a list of the tokens already renewed
JwtVerifyError_OneUse(token, t) ==
    IF ~token.wf THEN <<"jwt malformed">>
    ELSE IF token.sig # Hmac(JwtSecret, token.claims) THEN <<"invalid signature">>
    ELSE IF t >= token.claims.exp THEN <<"jwt expired">>
    ELSE IF token \in renewed THEN <<"jwt revoked">>
    ELSE <<>>

\* jwtService.verify(token, {secret}): shape, signature, then expiry
JwtVerifyError(token, t) ==
    IF ~token.wf THEN <<"jwt malformed">>
    ELSE IF token.sig # Hmac(JwtSecret, token.claims) THEN <<"invalid signature">>
    ELSE IF t >= token.claims.exp THEN <<"jwt expired">>
    ELSE <<>>

\* verifyToken returning what jwtService.verify decoded, iat and exp included
PickPayload_Whole(decoded) == decoded

\* const { id, email, name } = decoded; return { id, email, name }
PickPayload(decoded) == [id |-> decoded.id, email |-> decoded.email, name |-> decoded.name]

\* verifyToken also looking the token's user up in the store
verifyTokenThrows_KnownUser(token, t) ==
    \/ JwtVerifyError(token, t) # <<>>
    \/ \A row \in store : row.id # token.claims.id

\* JwtTokenAdapter.verifyToken: the payload, or RpcException 401 with the reason
verifyTokenThrows(token, t) == JwtVerifyError(token, t) # <<>>
verifyTokenError(token, t) == RpcException(401, JwtVerifyError(token, t))
verifyTokenPayload(token) == PickPayload(token.claims)

(* ------------------------------- DTOs --------------------------------- *)

\* const { password: _, ...userPayload } = user
WithoutPassword(user) == [f \in DOMAIN user \ {"password"} |-> user[f]]

\* new AuthResponseDto({id, email, name, isActive, updateName}, token)
AuthUserView(userPayload) ==
    [id |-> userPayload.id, email |-> userPayload.email, name |-> userPayload.name,
     isActive |-> userPayload.isActive, updateName |-> "User.prototype.updateName"]

AuthResponseDto(user, token) == [user |-> user, token |-> token]

\* the user without its password handed to generateToken as it is
TokenPayloadOf_Rest(userPayload) == userPayload

\* the payload both command handlers hand to generateToken
TokenPayloadOf(userPayload) ==
    [id |-> userPayload.id, email |-> userPayload.email, name |-> userPayload.name]

\* the entity itself handed to the DTO
CommandResponse_Entity(user, token) == AuthResponseDto(user, token)

\* const { password: _, ...userPayload } = user;
\* return new AuthResponseDto({id, email, name, isActive, updateName}, token)
CommandResponse(user, token) ==
    AuthResponseDto(AuthUserView(WithoutPassword(user)), token)

VerifyTokenResponseDto(user, token) == [user |-> user, token |-> token]

(* ---------------------------- invocations ----------------------------- *)

Idle ==
    [op |-> "none", pc |-> "idle", email |-> "", name |-> "", password |-> "",
     token |-> NoToken, found |-> {}, user |-> {}, payload |-> NoView,
     result |-> NoResult, calls |-> <<>>, faulted |-> FALSE, added |-> {},
     raced |-> FALSE, at |-> 0, mintAt |-> 0, kind |-> "none", again |-> FALSE,
     raised |-> NoError, prior |-> {}, envelope |-> NoEnvelope]

Running(p) == inv[p].pc \notin {"idle", "done"}

\* a response goes out as soon as it is there: no request arrives and no time
\* passes while one is waiting
NoneDone == \A q \in Procs : inv[q].pc # "done"

\* the next request takes the lowest free slot
CanStart(p) ==
    /\ NoneDone
    /\ inv[p].pc = "idle"
    /\ \A q \in Procs : q < p => inv[q].pc # "idle"

Called(p, name) == Append(inv[p].calls, name)

Init ==
    /\ store = {LegacyRow}
    /\ now = 0
    /\ nextId = 0
    /\ held = {}
    /\ renewed = {}
    /\ past = {}
    /\ removal = NoRemoval
    /\ entity = NoEntity
    /\ inv = [p \in Procs |-> Idle]

(* --------------------------- collaborators ---------------------------- *)

\* findByEmail with the query on the wrong column
findByEmail_WrongColumn(email) ==
    {mapToDomain(row) : row \in {r \in store : r.name = email}}

\* prisma.user.findUnique({where: {email}}) through mapToDomain: the user, if any
findByEmail(email) == {mapToDomain(row) : row \in {r \in store : r.email = email}}

\* a table whose only unique column is id
UniqueViolation_IdOnly(data) == \E row \in store : row.id = data.id

\* prisma.user.create rejects a row whose email or id is already there (P2002)
UniqueViolation(data) == \E row \in store : row.email = data.email \/ row.id = data.id

\* the RpcException PrismaUserRepository.save throws on P2002
DuplicateOnSave(user) ==
    RpcException(409, <<"User with email ", user.email, " already exists.">>)

\* crypto.randomUUID(): an identifier nobody has
randomUUID == nextId + 1

\* the salt bcrypt.hash draws: one no earlier call drew
genSalt == <<"salt", nextId + 1>>

\* a caller keeps the token it is given while it has room for it
Keep(token) == IF Cardinality(held \cup {token}) <= MaxHeld THEN held \cup {token} ELSE held

(* ---------------------- what the handlers throw ----------------------- *)

UserAlreadyExists == RpcException(400, <<"User already exists">>)

\* the first rejection of login telling the caller that the user is unknown
UserOrHashMissing_Telling == RpcException(404, <<"User not found">>)

\* thrown when no user is found or the user found has no password
UserOrHashMissing == RpcException(400, <<"User/Password not valid">>)

\* thrown when compare returns false
PasswordMismatch == RpcException(400, <<"User/Password not valid">>)

\* the lookup's result not looked at
AlreadyRegistered_Never(existingUser) == FALSE

\* if (existingUser)
AlreadyRegistered(existingUser) == existingUser # {}

InvalidToken == RpcException(401, <<"Invalid token">>)

\* the catch answering every unexpected error with one text
CommandCatch_Generic(error) ==
    IF error.rpc THEN error ELSE RpcException(500, <<"Internal server error">>)

\* the catch wrapping an unexpected error as the controller does, by its message
CommandCatch_MessageOnly(error) ==
    IF error.rpc THEN error ELSE RpcException(0, error.message)

\* the catch of RegisterUserHandler.execute and LoginUserHandler.execute:
\* an RpcException is rethrown, anything else becomes 500 with its message
CommandCatch(error) == IF error.rpc THEN error ELSE RpcException(500, error.message)

\* the catch of the command handlers in the place of the query's
QueryCatch_LikeCommand(error) ==
    IF error.rpc THEN error ELSE RpcException(500, error.message)

\* the catch of VerifyTokenHandler.execute: whatever was thrown becomes 401
QueryCatch(error) == InvalidToken

\* the controller making a new RpcException of the message of whatever it caught
ControllerCatch_Rewrap(error) == RpcException(0, error.message)

\* AuthController: an RpcException is rethrown as it is
ControllerCatch(error) == IF error.rpc THEN error ELSE RpcException(0, error.message)

(* ------------------------- register handler --------------------------- *)

\* the other register invocations that are past their lookup of this email
Rivals(p, email) ==
    {q \in Procs \ {p} : inv[q].op = "register" /\ Running(q) /\ inv[q].email = email}

HashPending == {q \in Procs : inv[q].op = "register" /\ inv[q].pc = "hash"}

Begin(p, op, email, name, password) ==
    [Idle EXCEPT !.op = op, !.email = email, !.name = name, !.password = password,
                 !.calls = <<"findByEmail">>, !.raced = (Rivals(p, email) # {}),
                 !.prior = {h \in past : h.email = email}]

\* the invocations left as they are, but for the rivals of p, which now know of it
Others(p, email) ==
    [q \in Procs |-> IF q \in Rivals(p, email) THEN [inv[q] EXCEPT !.raced = TRUE]
                     ELSE inv[q]]

\* execute(command) up to its lookup:
\* existingUser = await findByEmail(email); if (existingUser) throw 400
Register(p, email, name, password) ==
    /\ CanStart(p)
    /\ nextId + Cardinality(HashPending) < MaxIds
    /\ LET existingUser == findByEmail(email)
           called == [Begin(p, "register", email, name, password)
                        EXCEPT !.found = existingUser]
       IN  inv' = [Others(p, email) EXCEPT ![p] =
                     IF AlreadyRegistered(existingUser)
                     THEN [called EXCEPT !.pc = "done",
                             !.result = Thrown(ControllerCatch(CommandCatch(UserAlreadyExists))),
                             !.envelope = AllExceptionsFilter(ControllerCatch(CommandCatch(UserAlreadyExists)), now),
                             !.raised = UserAlreadyExists]
                     ELSE [called EXCEPT !.pc = "hash"]]
    /\ UNCHANGED <<store, now, nextId, held, renewed, past, entity, removal>>

\* hashedPassword = await hasher.hash(password); id = randomUUID();
\* userToSave = new User(id, email, name, hashedPassword)
RegisterHash(p) ==
    /\ inv[p].op = "register" /\ inv[p].pc = "hash"
    /\ LET hashedPassword == BcryptHash(inv[p].password, genSalt)
           userToSave == NewUser(randomUUID, inv[p].email, inv[p].name, hashedPassword)
       IN  inv' = [inv EXCEPT ![p] = [@ EXCEPT !.calls = Called(p, "hash"),
                                               !.user = {userToSave},
                                               !.pc = "save"]]
    /\ nextId' = nextId + 1
    /\ UNCHANGED <<store, now, held, renewed, past, entity, removal>>

\* savedUser = await userRepository.save(userToSave)
RegisterSave(p) ==
    /\ inv[p].op = "register" /\ inv[p].pc = "save"
    /\ \E userToSave \in inv[p].user :
         LET data == mapToPrismaCreateData(userToSave)
             called == [inv[p] EXCEPT !.calls = Called(p, "save")]
         IN  IF UniqueViolation(data)
             THEN /\ inv' = [inv EXCEPT ![p] =
                        [called EXCEPT !.pc = "done",
                           !.result = Thrown(ControllerCatch(CommandCatch(DuplicateOnSave(userToSave)))),
                           !.envelope = AllExceptionsFilter(ControllerCatch(CommandCatch(DuplicateOnSave(userToSave))), now),
                           !.raised = DuplicateOnSave(userToSave)]]
                  /\ store' = store
             ELSE /\ store' = store \cup {data}
                  /\ inv' = [inv EXCEPT ![p] =
                        [called EXCEPT !.pc = "token", !.user = {mapToDomain(data)},
                                        !.added = {data}]]
    /\ UNCHANGED <<now, nextId, held, renewed, past, entity, removal>>

\* TokenPort.generateToken(payload) at time t: the token, or the error thrown
generateTokenThrows(payload) == SignFails(payload)
generateTokenError ==
    PlainError(<<"Bad \"options.expiresIn\" option the payload already has an \"exp\" property.">>)
generateToken(payload, t) == Sign(payload, t)

\* token = await generateToken({id, email, name}); return new AuthResponseDto(...)
CommandToken(p) ==
    /\ inv[p].op \in {"register", "login"} /\ inv[p].pc = "token"
    /\ \E user \in inv[p].user :
         LET userPayload == WithoutPassword(user)
             payload == TokenPayloadOf(userPayload)
             called == [inv[p] EXCEPT !.calls = Called(p, "generateToken"),
                                      !.payload = payload, !.mintAt = now]
         IN  IF generateTokenThrows(payload)
             THEN /\ inv' = [inv EXCEPT ![p] =
                        [called EXCEPT !.pc = "done",
                           !.result = Thrown(ControllerCatch(CommandCatch(generateTokenError))),
                           !.envelope = AllExceptionsFilter(ControllerCatch(CommandCatch(generateTokenError)), now),
                           !.raised = generateTokenError]]
                  /\ held' = held
             ELSE LET token == generateToken(payload, now)
                  IN  /\ inv' = [inv EXCEPT ![p] =
                            [called EXCEPT !.pc = "done",
                               !.result = Returned(CommandResponse(user, token))]]
                      /\ held' = Keep(token)
    /\ UNCHANGED <<store, now, nextId, renewed, past, entity, removal>>

(* --------------------------- login handler ---------------------------- *)

\* execute(command) up to its lookup:
\* user = await findByEmail(email); if (!user || !user.password) throw 400
Login(p, email, password) ==
    /\ CanStart(p)
    /\ LET user == findByEmail(email)
           called == [Begin(p, "login", email, "", password)
                        EXCEPT !.found = user, !.user = user, !.raced = FALSE]
       IN  inv' = [inv EXCEPT ![p] =
                     IF user = {} \/ \E u \in user : NoPassword(u)
                     THEN [called EXCEPT !.pc = "done",
                             !.result = Thrown(ControllerCatch(CommandCatch(UserOrHashMissing))),
                             !.envelope = AllExceptionsFilter(ControllerCatch(CommandCatch(UserOrHashMissing)), now),
                             !.raised = UserOrHashMissing]
                     ELSE [called EXCEPT !.pc = "compare"]]
    /\ UNCHANGED <<store, now, nextId, held, renewed, past, entity, removal>>

\* a login that locks the account on a wrong password
LoginCompare_Locks(p) ==
    /\ inv[p].op = "login" /\ inv[p].pc = "compare"
    /\ \E user \in inv[p].user :
         LET isPasswordValid == BcryptCompare(inv[p].password, user.password)
             called == [inv[p] EXCEPT !.calls = Called(p, "compare")]
         IN  /\ inv' = [inv EXCEPT ![p] =
                          IF ~isPasswordValid
                          THEN [called EXCEPT !.pc = "done",
                                  !.result = Thrown(PasswordMismatch),
                                  !.raised = PasswordMismatch,
                                  !.envelope = AllExceptionsFilter(PasswordMismatch, now)]
                          ELSE [called EXCEPT !.pc = "token"]]
             /\ store' = IF isPasswordValid THEN store
                         ELSE {IF row.id = user.id THEN [row EXCEPT !.isActive = FALSE]
                               ELSE row : row \in store}
    /\ UNCHANGED <<now, nextId, held, renewed, past, entity, removal>>

\* isPasswordValid = await hasher.compare(password, user.password); if not, throw 400
LoginCompare(p) ==
    /\ inv[p].op = "login" /\ inv[p].pc = "compare"
    /\ \E user \in inv[p].user :
         LET isPasswordValid == BcryptCompare(inv[p].password, user.password)
             called == [inv[p] EXCEPT !.calls = Called(p, "compare")]
         IN  inv' = [inv EXCEPT ![p] =
                       IF ~isPasswordValid
                       THEN [called EXCEPT !.pc = "done",
                               !.result = Thrown(ControllerCatch(CommandCatch(PasswordMismatch))),
                               !.envelope = AllExceptionsFilter(ControllerCatch(CommandCatch(PasswordMismatch)), now),
                               !.raised = PasswordMismatch]
                       ELSE [called EXCEPT !.pc = "token"]]
    /\ UNCHANGED <<store, now, nextId, held, renewed, past, entity, removal>>

(* --------------------------- verify handler --------------------------- *)

\* what a caller can present: a token it was given, that token with its expiry
\* pushed back, the same claims signed with another secret, or no token at all
Tampered(token) == [token EXCEPT !.claims.exp = @ + 1]

Resigned(token) == Jwt(token.claims, Hmac(ForeignSecret, token.claims))

Presentable ==
    {<<"issued", t>> : t \in held} \cup {<<"tampered", Tampered(t)>> : t \in held}
       \cup {<<"resigned", Resigned(t)>> : t \in held} \cup {<<"malformed", Malformed>>}

\* a caller drops a token it kept
Forget(token) ==
    /\ NoneDone
    /\ token \in held
    /\ held' = held \ {token}
    /\ renewed' = renewed \ {token}
    /\ UNCHANGED <<store, now, nextId, inv, past, entity, removal>>

\* execute(query) up to the refresh: userPayload = await tokenService.verifyToken(token)
Verify(p, kind, token) ==
    /\ CanStart(p)
    /\ LET called == [Idle EXCEPT !.op = "verify", !.kind = kind, !.token = token,
                                  !.calls = <<"verifyToken">>, !.at = now,
                                  !.again = (token \in renewed)]
       IN  inv' = [inv EXCEPT ![p] =
                     IF verifyTokenThrows(token, now)
                     THEN [called EXCEPT !.pc = "done",
                             !.result = Thrown(ControllerCatch(QueryCatch(verifyTokenError(token, now)))),
                             !.envelope = AllExceptionsFilter(ControllerCatch(QueryCatch(verifyTokenError(token, now))), now),
                             !.raised = verifyTokenError(token, now)]
                     ELSE [called EXCEPT !.pc = "token",
                                         !.payload = verifyTokenPayload(token)]]
    /\ UNCHANGED <<store, now, nextId, held, renewed, past, entity, removal>>

\* newToken = await generateToken(userPayload); return new VerifyTokenResponseDto(...)
\* noting, when asked to, that the token presented has been renewed
Refresh(p, noted) ==
    /\ inv[p].op = "verify" /\ inv[p].pc = "token"
    /\ LET userPayload == inv[p].payload
           called == [inv[p] EXCEPT !.calls = Called(p, "generateToken"), !.mintAt = now]
       IN  IF generateTokenThrows(userPayload)
           THEN /\ inv' = [inv EXCEPT ![p] =
                      [called EXCEPT !.pc = "done",
                         !.result = Thrown(ControllerCatch(QueryCatch(generateTokenError))),
                         !.envelope = AllExceptionsFilter(ControllerCatch(QueryCatch(generateTokenError)), now),
                         !.raised = generateTokenError]]
                /\ UNCHANGED <<held, renewed>>
           ELSE LET newToken == generateToken(userPayload, now)
                IN  /\ inv' = [inv EXCEPT ![p] =
                          [called EXCEPT !.pc = "done",
                             !.result = Returned(VerifyTokenResponseDto(userPayload, newToken))]]
                    /\ held' = Keep(newToken)
                    /\ renewed' = IF noted THEN renewed \cup ({inv[p].token} \cap held)
                                  ELSE renewed
    /\ UNCHANGED <<store, now, nextId, past, entity, removal>>

VerifyRefresh(p) == Refresh(p, FALSE)

\* the same step with the history kept
VerifyRefreshNoted(p) == Refresh(p, TRUE)

(* ----------------------- collaborator failures ------------------------ *)

\* the failed call left to be made again
Faulty_Retry(called, raised, error) ==
    [called EXCEPT !.faulted = TRUE, !.raised = raised]

Faulty(called, raised, error) ==
    [called EXCEPT !.faulted = TRUE, !.pc = "done", !.raised = raised,
                   !.result = Thrown(ControllerCatch(error)),
                   !.envelope = AllExceptionsFilter(ControllerCatch(error), now)]

DatabaseErrorFinding == RpcException(500, <<"Database error finding user by email.">>)
DatabaseErrorSaving == RpcException(500, <<"Database error saving user.">>)
BcryptError == PlainError(<<"bcrypt failed">>)
SignError == PlainError(<<"secretOrPrivateKey must have a value">>)

\* prisma.user.findUnique rejects: findByEmail throws RpcException 500
FindByEmailFails(p, op, email, name, password) ==
    /\ CanStart(p)
    /\ inv' = [inv EXCEPT ![p] =
                 Faulty([Begin(p, op, email, name, password) EXCEPT !.raced = FALSE],
                        DatabaseErrorFinding, CommandCatch(DatabaseErrorFinding))]
    /\ UNCHANGED <<store, now, nextId, held, renewed, past, entity, removal>>

\* bcrypt.hash rejects with an Error
HashFails(p) ==
    /\ inv[p].op = "register" /\ inv[p].pc = "hash"
    /\ inv' = [inv EXCEPT ![p] =
                 Faulty([@ EXCEPT !.calls = Called(p, "hash")], BcryptError,
                        CommandCatch(BcryptError))]
    /\ UNCHANGED <<store, now, nextId, held, renewed, past, entity, removal>>

\* prisma.user.create rejects with an error other than P2002
SaveFails(p) ==
    /\ inv[p].op = "register" /\ inv[p].pc = "save"
    /\ inv' = [inv EXCEPT ![p] =
                 Faulty([@ EXCEPT !.calls = Called(p, "save")],
                        DatabaseErrorSaving, CommandCatch(DatabaseErrorSaving))]
    /\ UNCHANGED <<store, now, nextId, held, renewed, past, entity, removal>>

\* bcrypt.compare rejects with an Error
CompareFails(p) ==
    /\ inv[p].op = "login" /\ inv[p].pc = "compare"
    /\ inv' = [inv EXCEPT ![p] =
                 Faulty([@ EXCEPT !.calls = Called(p, "compare")], BcryptError,
                        CommandCatch(BcryptError))]
    /\ UNCHANGED <<store, now, nextId, held, renewed, past, entity, removal>>

\* the failure of the signing answered by taking the saved user out again
GenerateTokenFails_RollsBack(p) ==
    /\ inv[p].pc = "token"
    /\ inv' = [inv EXCEPT ![p] =
                 Faulty([@ EXCEPT !.calls = Called(p, "generateToken")], SignError,
                        IF inv[p].op = "verify" THEN QueryCatch(SignError)
                        ELSE CommandCatch(SignError))]
    /\ store' = store \ inv[p].added
    /\ UNCHANGED <<now, nextId, held, renewed, past, entity, removal>>

\* jwtService.sign throws an Error
GenerateTokenFails(p) ==
    /\ inv[p].pc = "token"
    /\ inv' = [inv EXCEPT ![p] =
                 Faulty([@ EXCEPT !.calls = Called(p, "generateToken")], SignError,
                        IF inv[p].op = "verify" THEN QueryCatch(SignError)
                        ELSE CommandCatch(SignError))]
    /\ UNCHANGED <<store, now, nextId, held, renewed, past, entity, removal>>

(* ---------------------------- environment ----------------------------- *)

\* what is remembered of a register that stored a row
Remembered(invocation) ==
    [email |-> invocation.email, password |-> invocation.password,
     added |-> invocation.added, result |-> invocation.result]

\* the caller has its response; the register that stored a row is remembered,
\* when asked to
Answer(p, noted) ==
    /\ inv[p].pc = "done"
    /\ inv' = [inv EXCEPT ![p] = Idle]
    /\ past' = IF noted /\ inv[p].op = "register" /\ inv[p].added # {}
               THEN past \cup {Remembered(inv[p])}
               ELSE past
    /\ UNCHANGED <<store, now, nextId, held, renewed, entity, removal>>

Return(p) == Answer(p, FALSE)

\* the same step with the history kept
ReturnNoted(p) == Answer(p, TRUE)

Tick ==
    /\ NoneDone
    /\ now < MaxTime
    /\ now' = now + 1
    /\ UNCHANGED <<store, nextId, held, inv, renewed, past, entity, removal>>

Next ==
    \/ \E p \in Procs, email \in Emails, name \in Names, password \in Passwords :
          Register(p, email, name, password)
    \/ \E p \in Procs : RegisterHash(p)
    \/ \E p \in Procs : RegisterSave(p)
    \/ \E p \in Procs : CommandToken(p)
    \/ \E p \in Procs, email \in Emails, password \in Passwords : Login(p, email, password)
    \/ \E p \in Procs : LoginCompare(p)
    \/ \E p \in Procs, input \in Presentable : Verify(p, input[1], input[2])
    \/ \E p \in Procs : VerifyRefresh(p)
    \/ \E p \in Procs, email \in Emails, password \in Passwords :
          \/ FindByEmailFails(p, "login", email, "", password)
          \/ \E name \in Names : FindByEmailFails(p, "register", email, name, password)
    \/ \E p \in Procs : HashFails(p)
    \/ \E p \in Procs : SaveFails(p)
    \/ \E p \in Procs : CompareFails(p)
    \/ \E p \in Procs : GenerateTokenFails(p)
    \/ \E p \in Procs : Return(p)
    \/ \E token \in held : Forget(token)
    \/ Tick

Spec == Init /\ [][Next]_vars

\* the service started on an empty table
InitEmpty ==
    /\ store = {}
    /\ now = 0
    /\ nextId = 0
    /\ held = {}
    /\ renewed = {}
    /\ past = {}
    /\ removal = NoRemoval
    /\ entity = NoEntity
    /\ inv = [p \in Procs |-> Idle]

\* the two command handlers
NextCommands ==
    \/ \E p \in Procs, email \in Emails, name \in Names, password \in Passwords :
          Register(p, email, name, password)
    \/ \E p \in Procs : RegisterHash(p)
    \/ \E p \in Procs : RegisterSave(p)
    \/ \E p \in Procs : CommandToken(p)
    \/ \E p \in Procs, email \in Emails, password \in Passwords : Login(p, email, password)
    \/ \E p \in Procs : LoginCompare(p)
    \/ \E p \in Procs : Return(p)
    \/ Tick

SpecCommands == InitEmpty /\ [][NextCommands]_vars

\* user.updateName(newName) on the user in memory
UpdateName(newName) ==
    /\ entity' = IF updateNameThrows(newName)
                 THEN [user |-> entity.user, before |-> entity.user,
                       newName |-> newName, error |-> NameEmptyError]
                 ELSE [user |-> updateName(entity.user, newName), before |-> entity.user,
                       newName |-> newName, error |-> NoError]
    /\ UNCHANGED <<store, now, nextId, held, renewed, past, removal, inv>>

\* a user as the constructor leaves it, which does not look at the name
InitUpdateName ==
    /\ store = {LegacyRow}
    /\ now = 0
    /\ nextId = 0
    /\ held = {}
    /\ renewed = {}
    /\ past = {}
    /\ removal = NoRemoval
    /\ inv = [p \in Procs |-> Idle]
    /\ \E name \in {<<>>, <<"a", "a">>, <<" ", "a">>}, isActive \in BOOLEAN :
          LET user == User(1, "ada@x.io", name, BcryptHash("Str0ng!Pass", <<"salt", 1>>),
                           isActive)
          IN  entity = [user |-> user, before |-> user, newName |-> NoArgument,
                        error |-> NoError]

NextUpdateName == \E newName \in NameStrings \cup {Undefined} : UpdateName(newName)

SpecUpdateName == InitUpdateName /\ [][NextUpdateName]_vars

\* register and login, the signing able to fail, with the registers that
\* stored a row remembered
NextAfter ==
    \/ \E p \in Procs, email \in Emails, name \in Names, password \in Passwords :
          Register(p, email, name, password)
    \/ \E p \in Procs : RegisterHash(p)
    \/ \E p \in Procs : RegisterSave(p)
    \/ \E p \in Procs : CommandToken(p)
    \/ \E p \in Procs, email \in Emails, password \in Passwords : Login(p, email, password)
    \/ \E p \in Procs : LoginCompare(p)
    \/ \E p \in Procs : GenerateTokenFails(p)
    \/ \E p \in Procs : ReturnNoted(p)
    \/ Tick

SpecAfter == Init /\ [][NextAfter]_vars

\* register, login and verify with the renewals of the kept tokens noted
NextNoted ==
    \/ \E p \in Procs, email \in Emails, name \in Names, password \in Passwords :
          Register(p, email, name, password)
    \/ \E p \in Procs : RegisterHash(p)
    \/ \E p \in Procs : RegisterSave(p)
    \/ \E p \in Procs : CommandToken(p)
    \/ \E p \in Procs, email \in Emails, password \in Passwords : Login(p, email, password)
    \/ \E p \in Procs : LoginCompare(p)
    \/ \E p \in Procs, input \in Presentable : Verify(p, input[1], input[2])
    \/ \E p \in Procs : VerifyRefreshNoted(p)
    \/ \E p \in Procs : Return(p)
    \/ \E token \in held : Forget(token)
    \/ Tick

SpecNoted == Init /\ [][NextNoted]_vars

\* the P2025 of prisma.user.delete when no row has the id, as delete rethrows it
UserNotFound(id) == RpcException(404, <<"User with ID ", id, " not found.">>)
DatabaseErrorDeleting == RpcException(500, <<"Database error deleting user.">>)

\* what a call delete(id) came to: it returned, or the error it threw
DeleteReturned(id) == [id |-> id, kind |-> "ok", status |-> 0, message |-> <<>>]
DeleteThrown(id, err) ==
    [id |-> id, kind |-> "error", status |-> err.status, message |-> err.message]

\* the identifiers delete is called with: those of the rows the table can
\* hold, stored at the time or not
DeleteIds == (1..MaxIds) \cup {LegacyRow.id}

\* PrismaUserRepository.delete(id): prisma.user.delete({where: {id}}) removes
\* the row with that id and delete returns; with no such row prisma throws
\* P2025 and delete throws RpcException 404.  No handler of this service
\* calls it.
Delete(id) ==
    /\ IF \E row \in store : row.id = id
       THEN /\ store' = {row \in store : row.id # id}
            /\ removal' = DeleteReturned(id)
       ELSE /\ store' = store
            /\ removal' = DeleteThrown(id, UserNotFound(id))
    /\ UNCHANGED <<now, nextId, held, inv, renewed, past, entity>>

\* prisma.user.delete rejects with any other error: delete throws RpcException 500
DeleteFails(id) ==
    /\ removal' = DeleteThrown(id, DatabaseErrorDeleting)
    /\ UNCHANGED <<store, now, nextId, held, inv, renewed, past, entity>>

\* registrations hand out tokens, callers present them, users are deleted.
\* The requests come one at a time, in the first slot; delete is called at any
\* moment, between the awaits of a request as well as between requests.
NextWithDelete ==
    \/ \E email \in Emails, name \in Names : Register(1, email, name, "Str0ng!Pass")
    \/ \E p \in Procs : RegisterHash(p)
    \/ \E p \in Procs : RegisterSave(p)
    \/ \E p \in Procs : CommandToken(p)
    \/ \E input \in Presentable : Verify(1, input[1], input[2])
    \/ \E p \in Procs : VerifyRefresh(p)
    \/ \E p \in Procs : Return(p)
    \/ \E token \in held : Forget(token)
    \/ \E id \in DeleteIds : Delete(id)
    \/ \E id \in DeleteIds : DeleteFails(id)
    \/ Tick

\* the verify workflow next to a component that deletes users through the
\* repository
SpecWithDelete == Init /\ [][NextWithDelete]_vars

(* ------------------------------ claims -------------------------------- *)

Done(p, op) == inv[p].op = op /\ inv[p].pc = "done"

Ok(p) == inv[p].result.kind = "ok"

\* a register invocation that has ended, met no collaborator failure, and ran
\* while another register of the same email was in flight
RacedRegister(p) == Done(p, "register") /\ ~inv[p].faulted /\ inv[p].raced

\* C1: register invocations racing on one email end with exactly one success
\* and every other one failing with Conflict, status 409.
C1_OneSuccessRestConflict ==
    /\ \A p \in Procs : RacedRegister(p) => Ok(p) \/ inv[p].result.status = 409
    /\ \A p, q \in Procs :
         (p # q /\ RacedRegister(p) /\ RacedRegister(q) /\ inv[p].email = inv[q].email)
            => (Ok(p) # Ok(q))

\* What does hold of the race: the invocations that all pass the lookup before
\* any of them saves end with one success and the others with status 409.
SaveRaceResolves ==
    /\ \A p \in Procs :
         (RacedRegister(p) /\ inv[p].found = {}) => Ok(p) \/ inv[p].result.status = 409
    /\ \A p, q \in Procs :
         (/\ p # q /\ RacedRegister(p) /\ RacedRegister(q)
          /\ inv[p].email = inv[q].email /\ inv[p].found = {} /\ inv[q].found = {})
            => (Ok(p) # Ok(q))

\* C6: a register whose lookup finds the email already registered fails with
\* Conflict, status 409, like the duplicate the store detects on save.
C6_LookupDuplicateIsConflict ==
    \A p \in Procs :
       (Done(p, "register") /\ ~inv[p].faulted /\ inv[p].found # {})
          => (~Ok(p) /\ inv[p].result.status = 409)

\* the response every rejected login gets
InvalidCredentialsResponse ==
    [kind |-> "error", status |-> 400, message |-> <<"User/Password not valid">>,
     user |-> NoView, token |-> NoToken]

\* p has just ended as an invocation of op that met no collaborator failure
Ends(p, op) ==
    /\ inv[p].pc # "done" /\ inv'[p].pc = "done"
    /\ inv'[p].op = op /\ ~inv'[p].faulted

\* the stored rows with this email whose hash is not empty and matches password
Matching(email, password) ==
    {row \in store : /\ row.email = email
                     /\ row.password # EmptyString
                     /\ BcryptCompare(password, row.password)}

\* C2: a login ends in success exactly when the store holds a user with the
\* email whose stored hash is not empty and matches the password; every other
\* login that meets no collaborator failure ends with InvalidCredentials.
C2_LoginSucceedsIffMatch ==
    [][\A p \in Procs :
         Ends(p, "login") =>
            /\ (inv'[p].result.kind = "ok")
                  <=> (Matching(inv'[p].email, inv'[p].password) # {})
            /\ inv'[p].result.kind # "ok" => inv'[p].result = InvalidCredentialsResponse]_vars

C2_Witness ==
    \E p, q \in Procs : /\ Done(p, "login") /\ Ok(p)
                        /\ Done(q, "login") /\ ~Ok(q) /\ ~inv[q].faulted

\* which of the checks of login rejected the request, read off the lookup
LoginCase(p) ==
    IF inv[p].found = {} THEN "no user"
    ELSE IF \E u \in inv[p].found : u.password = EmptyString THEN "no hash"
    ELSE IF \E u \in inv[p].found : ~BcryptCompare(inv[p].password, u.password)
         THEN "mismatch"
    ELSE "match"

Rejected(p) == Done(p, "login") /\ ~inv[p].faulted /\ LoginCase(p) # "match"

\* C3: logins rejected for no user, for no stored hash and for a wrong password
\* get the same failure: status 400 and the message "User/Password not valid".
C3_RejectionsIndistinguishable ==
    \A p, q \in Procs :
       (Rejected(p) /\ Rejected(q)) =>
          /\ inv[p].result = inv[q].result
          /\ inv[p].result.status = 400
          /\ inv[p].result.message = <<"User/Password not valid">>

C3_Witness ==
    \E p, q \in Procs : /\ Rejected(p) /\ Rejected(q)
                        /\ LoginCase(p) = "no hash" /\ LoginCase(q) = "mismatch"

C3_WitnessNoUser == \E p \in Procs : Rejected(p) /\ LoginCase(p) = "no user"

\* the fields of a user view that carry data (updateName is a method reference)
DataFields(view) == DOMAIN view \ {"updateName"}

\* C4: no response of register, login or verify holds a password or a password
\* hash: the user view has the data fields id, email, name and isActive (id,
\* email and name for verify), the token's claims have no password, and no
\* failure message quotes a password.
C4_NoPasswordInResponse ==
    \A p \in Procs :
       inv[p].pc = "done" =>
          /\ "password" \notin DOMAIN inv[p].result.user
          /\ "password" \notin DOMAIN inv[p].result.token.claims
          /\ \A i \in DOMAIN inv[p].result.message : inv[p].result.message[i] \notin Passwords
          /\ (Ok(p) /\ inv[p].op \in {"register", "login"}) =>
                /\ DataFields(inv[p].result.user) = {"id", "email", "name", "isActive"}
                /\ inv[p].result.user.email \in Emails
                /\ inv[p].result.user.name \in Names \cup {LegacyRow.name}
                /\ inv[p].result.user.isActive \in BOOLEAN
                /\ inv[p].result.user.id \in 1..MaxIds \cup {LegacyRow.id}
          /\ (Ok(p) /\ inv[p].op = "verify") =>
                DataFields(inv[p].result.user) = {"id", "email", "name"}

C4_Witness ==
    \E p, q \in Procs : /\ Done(p, "register") /\ Ok(p)
                        /\ Done(q, "register") /\ inv[q].result.status = 409

C4_WitnessLogin == \E p \in Procs : Done(p, "login") /\ Ok(p)

\* C5: a register whose lookup finds the email registered fails having called
\* findByEmail only (no hash, no save, no generateToken) and leaves the stored
\* rows as they were.
C5_DuplicateHasNoEffect ==
    [][\A p \in Procs :
         (Ends(p, "register") /\ inv'[p].found # {}) =>
            /\ inv'[p].result.kind = "error"
            /\ inv'[p].calls = <<"findByEmail">>
            /\ store' = store
            /\ inv'[p].added = {}
            /\ held' = held]_vars

C5_Witness == \E p \in Procs : Done(p, "register") /\ inv[p].found # {} /\ ~Ok(p)

\* C7: a register of an email that is not stored, with no other register of
\* that email in flight and no collaborator failure, succeeds, adds exactly one
\* row, with that email and name and isActive true, and returns a token that
\* verification accepts and that carries the row's id, email and name.
C7_RegisterFreshSucceeds ==
    \A p \in Procs :
       (Done(p, "register") /\ ~inv[p].faulted /\ inv[p].found = {} /\ ~inv[p].raced) =>
          /\ Ok(p)
          /\ Cardinality(inv[p].added) = 1
          /\ inv[p].added \subseteq store
          /\ Cardinality({row \in store : row.email = inv[p].email}) = 1
          /\ \A row \in inv[p].added :
                /\ row.email = inv[p].email
                /\ row.name = inv[p].name
                /\ row.isActive = TRUE
                /\ row.password # EmptyString
                /\ ~verifyTokenThrows(inv[p].result.token, inv[p].mintAt)
                /\ verifyTokenPayload(inv[p].result.token)
                      = [id |-> row.id, email |-> row.email, name |-> row.name]
                /\ inv[p].result.user.id = row.id

C7_Witness ==
    \E p \in Procs : /\ Done(p, "register") /\ ~inv[p].faulted /\ inv[p].found = {}
                     /\ ~inv[p].raced /\ Ok(p) /\ inv[p].mintAt > 0

\* C8: verify of a token that generateToken made, done before the token
\* expires, succeeds and returns the payload the token was made from: id, email
\* and name, without iat and exp.
C8_VerifyRoundTrip ==
    \A p \in Procs :
       (/\ Done(p, "verify") /\ ~inv[p].faulted /\ inv[p].kind = "issued"
        /\ inv[p].at < inv[p].token.claims.exp) =>
          /\ Ok(p)
          /\ DOMAIN inv[p].result.user = {"id", "email", "name"}
          /\ \A f \in {"id", "email", "name"} :
                inv[p].result.user[f] = inv[p].token.claims[f]

C8_Witness ==
    \E p \in Procs : /\ Done(p, "verify") /\ Ok(p) /\ inv[p].kind = "issued"
                     /\ inv[p].at > inv[p].token.claims.iat

\* C9 as claimed: every successful verify returns a token that differs from
\* the one it was given, also when it happens in the tick the token was made in.
C9_RefreshAlwaysDiffers ==
    \A p \in Procs : (Done(p, "verify") /\ Ok(p)) => inv[p].result.token # inv[p].token

\* C9 as amended: a successful verify returns a token that differs from the
\* one it was given exactly when the refresh happens in a later tick than the
\* one the given token was issued in; within that tick it returns the same token.
C9_RefreshDiffersAfterTick ==
    \A p \in Procs :
       (Done(p, "verify") /\ Ok(p)) =>
          ((inv[p].result.token # inv[p].token) <=> (inv[p].mintAt > inv[p].token.claims.iat))

C9_Witness ==
    \E p, q \in Procs :
       /\ Done(p, "verify") /\ Ok(p) /\ inv[p].mintAt > inv[p].token.claims.iat
       /\ Done(q, "verify") /\ Ok(q) /\ inv[q].mintAt = inv[q].token.claims.iat

\* C10: verify of a token that has expired, was signed with another secret,
\* was altered after signing or is malformed fails with status 401, without
\* calling generateToken and without returning a token.
C10_BadTokenUnauthorized ==
    \A p \in Procs :
       (/\ Done(p, "verify")
        /\ \/ inv[p].kind \in {"tampered", "resigned", "malformed"}
           \/ inv[p].at >= inv[p].token.claims.exp) =>
          /\ inv[p].result.kind = "error"
          /\ inv[p].result.status = 401
          /\ inv[p].result.token = NoToken
          /\ inv[p].calls = <<"verifyToken">>

C10_Witness ==
    \E p \in Procs : /\ Done(p, "verify") /\ inv[p].kind = "issued"
                     /\ inv[p].at >= inv[p].token.claims.exp /\ ~Ok(p)

C10_WitnessTampered == \E p \in Procs : Done(p, "verify") /\ inv[p].kind = "tampered"

C10_WitnessResigned == \E p \in Procs : Done(p, "verify") /\ inv[p].kind = "resigned"

C10_WitnessMalformed == \E p \in Procs : Done(p, "verify") /\ inv[p].kind = "malformed"

\* a verify invocation that ended because verifyToken rejected its token
TokenRejected(p) ==
    /\ Done(p, "verify") /\ ~inv[p].faulted
    /\ verifyTokenThrows(inv[p].token, inv[p].at)

\* C11: when verifyToken rejects the token, the 401 failure the verify handler
\* returns has as its message the reason verifyToken reported: "jwt expired",
\* "invalid signature" or "jwt malformed".
C11_FailureCarriesReason ==
    \A p \in Procs :
       TokenRejected(p) =>
          /\ inv[p].result.status = 401
          /\ inv[p].result.message = verifyTokenError(inv[p].token, inv[p].at).message

\* what verify returns for a token presented at time t and refreshed at time
\* n, told from the token, the secret and the two times alone
VerifyOutcome(token, t, n) ==
    IF JwtVerifyError(token, t) # <<>> THEN Thrown(InvalidToken)
    ELSE LET userPayload == PickPayload(token.claims)
         IN  Returned(VerifyTokenResponseDto(userPayload, Sign(userPayload, n)))

\* the stored rows of the user a token names
RowsNamedBy(token) ==
    {row \in store : row.id = token.claims.id \/ row.email = token.claims.email}

\* C12: verify never reads the store: it calls verifyToken and generateToken
\* only, and its outcome is the one told from the token, the secret and the
\* time, whether or not the store still holds the user the token names.
C12_VerifyIgnoresStore ==
    \A p \in Procs :
       (Done(p, "verify") /\ ~inv[p].faulted) =>
          /\ inv[p].result = VerifyOutcome(inv[p].token, inv[p].at, inv[p].mintAt)
          /\ \A i \in DOMAIN inv[p].calls : inv[p].calls[i] \in {"verifyToken", "generateToken"}

\* a token accepted after its user was deleted
C12_Witness ==
    \E p \in Procs : /\ Done(p, "verify") /\ Ok(p) /\ inv[p].kind = "issued"
                     /\ RowsNamedBy(inv[p].token) = {}

\* C13: a successful verify of a token does not invalidate it: a token that
\* was minted by this service and has been renewed by verify, once or more, is
\* accepted again by every verify that presents it before its own expiry.
C13_RenewedTokenStillAccepted ==
    \A p \in Procs :
       (/\ Done(p, "verify") /\ ~inv[p].faulted /\ inv[p].again
        /\ inv[p].at < inv[p].token.claims.exp) =>
          /\ Ok(p)
          /\ inv[p].result = VerifyOutcome(inv[p].token, inv[p].at, inv[p].mintAt)

\* a renewed token accepted again, in a later tick than the one it was minted in
C13_Witness ==
    \E p \in Procs : /\ Done(p, "verify") /\ inv[p].again /\ Ok(p)
                     /\ inv[p].at > inv[p].token.claims.iat
                     /\ inv[p].token \in renewed

\* C14: the token a successful verify returns expires ExpiresIn after the time
\* it was minted at, whatever the expiry of the token presented: it expires no
\* earlier than the token presented, and verification accepts it from then on
\* until that expiry.
C14_RefreshExpiresFromNow ==
    \A p \in Procs :
       (Done(p, "verify") /\ Ok(p)) =>
          /\ inv[p].result.token.claims.iat = inv[p].mintAt
          /\ inv[p].result.token.claims.exp = inv[p].mintAt + ExpiresIn
          /\ inv[p].result.token.claims.exp >= inv[p].token.claims.exp
          /\ inv[p].result.token.claims.exp >= inv[p].at + ExpiresIn
          /\ \A n \in inv[p].mintAt .. (inv[p].mintAt + ExpiresIn - 1) :
                ~verifyTokenThrows(inv[p].result.token, n)

\* a token renewed in its last tick, the clock moving on between verifyToken
\* and generateToken
C14_Witness ==
    \E p \in Procs : /\ Done(p, "verify") /\ Ok(p)
                     /\ inv[p].at = inv[p].token.claims.exp - 1
                     /\ inv[p].mintAt > inv[p].at
                     /\ inv[p].result.token.claims.exp > inv[p].token.claims.exp

\* p has ended as an invocation of register or login
CommandDone(p) == inv[p].pc = "done" /\ inv[p].op \in {"register", "login"}

\* C15: in register and login, an error of the hasher, the store or the token
\* service that is no RpcException reaches the caller as a failure with status
\* 500 and the error's own message, and as nothing else.
C15_UnexpectedErrorIsInternal ==
    \A p \in Procs :
       (CommandDone(p) /\ inv[p].raised # NoError /\ ~inv[p].raised.rpc) =>
          /\ inv[p].result.kind = "error"
          /\ inv[p].result.status = 500
          /\ inv[p].result.message = inv[p].raised.message
          /\ inv[p].result.user = NoView /\ inv[p].result.token = NoToken

\* bcrypt failing in a register while jwtService.sign fails in a login
C15_Witness ==
    \E p, q \in Procs : /\ Done(p, "register") /\ inv[p].raised = BcryptError
                        /\ Done(q, "login") /\ inv[q].raised = SignError

C15_WitnessCompare == \E p \in Procs : Done(p, "login") /\ inv[p].raised = BcryptError

\* C16: an RpcException thrown inside register or login, by the handler or by
\* a collaborator, reaches the caller with the status and the message it was
\* thrown with; a failed lookup of login is the store's 500, not the 400 of a
\* rejected login.
C16_TypedFailureUnchanged ==
    \A p \in Procs :
       (CommandDone(p) /\ inv[p].raised.rpc) =>
          /\ inv[p].result = Thrown(inv[p].raised)
          /\ inv[p].result.status = inv[p].raised.status
          /\ inv[p].result.message = inv[p].raised.message
          /\ (inv[p].op = "login" /\ inv[p].raised = DatabaseErrorFinding) =>
                /\ inv[p].result # InvalidCredentialsResponse
                /\ inv[p].result.status = 500

\* the store's 409 in a register while the lookup of a login fails
C16_Witness ==
    \E p, q \in Procs :
       /\ Done(p, "register") /\ inv[p].raised.rpc /\ inv[p].raised.status = 409
       /\ Done(q, "login") /\ inv[q].raised = DatabaseErrorFinding

C16_WitnessSave == \E p \in Procs : Done(p, "register") /\ inv[p].raised = DatabaseErrorSaving

C16_WitnessHandler == \E p \in Procs : Done(p, "login") /\ inv[p].raised = PasswordMismatch

\* the collaborator calls of each handler, in the order of its code
Script(op) ==
    CASE op = "register" -> <<"findByEmail", "hash", "save", "generateToken">>
      [] op = "login" -> <<"findByEmail", "compare", "generateToken">>
      [] op = "verify" -> <<"verifyToken", "generateToken">>
      [] OTHER -> <<>>

\* C17: no handler retries: the calls an invocation has made are the first
\* calls of its handler's code, each made once; a step in which something is
\* thrown makes one call at most and ends the invocation with one failure, and
\* an invocation that has ended makes no further call.
C17_NoRetry ==
    [][\A p \in Procs :
         /\ Len(inv'[p].calls) <= Len(Script(inv'[p].op))
         /\ inv'[p].calls = SubSeq(Script(inv'[p].op), 1, Len(inv'[p].calls))
         /\ (inv[p].pc # "done" /\ inv'[p].raised # NoError) =>
               /\ inv'[p].pc = "done" /\ inv'[p].result.kind = "error"
               /\ Len(inv'[p].calls) <= Len(inv[p].calls) + 1
         /\ inv[p].pc = "done" => inv'[p] \in {inv[p], Idle}]_vars

\* a register that failed at save and a verify that failed at generateToken
C17_Witness ==
    \E p, q \in Procs :
       /\ Done(p, "register") /\ inv[p].faulted
       /\ inv[p].calls = <<"findByEmail", "hash", "save">>
       /\ Done(q, "verify") /\ inv[q].faulted
       /\ inv[q].calls = <<"verifyToken", "generateToken">>

\* a register invocation whose save the store rejected as a duplicate
SaveRejected(p) ==
    /\ Done(p, "register") /\ ~inv[p].faulted
    /\ inv[p].calls = <<"findByEmail", "hash", "save">>

\* C18: no two stored rows have the same email, whatever registers ran and
\* however they interleaved; a save of a user whose email is stored is
\* rejected with status 409 and adds no row.
C18_EmailUnique ==
    /\ \A r1, r2 \in store : r1.email = r2.email => r1 = r2
    /\ \A p \in Procs :
          SaveRejected(p) =>
             /\ inv[p].result.status = 409
             /\ inv[p].added = {}
             /\ \A user \in inv[p].user : \A row \in store : row.id # user.id
             /\ Cardinality({row \in store : row.email = inv[p].email}) = 1

\* two registers of one email both past the lookup, one saved, the other rejected
C18_Witness ==
    \E p, q \in Procs :
       /\ SaveRejected(p) /\ inv[p].found = {}
       /\ inv[q].op = "register" /\ inv[q].email = inv[p].email /\ inv[q].added # {}
       /\ inv[q].added \subseteq store

\* the rows that register stored
Registered == store \ {LegacyRow}

\* C19: the id of a stored user is one that register generated, the request
\* having none to give; the stored users have pairwise distinct ids; and a
\* login returns, in its user view and in its token, the id of the stored row
\* of its email.
C19_IdsGeneratedDistinctStable ==
    /\ \A row \in Registered : row.id \in 1 .. nextId
    /\ \A r1, r2 \in store : r1.id = r2.id => r1 = r2
    /\ \A p \in Procs :
          (Done(p, "register") /\ Ok(p)) =>
             \A row \in inv[p].added : inv[p].result.user.id = row.id
    /\ \A p \in Procs :
          (Done(p, "login") /\ Ok(p)) =>
             \E row \in store : /\ row.email = inv[p].email
                                /\ inv[p].result.user.id = row.id
                                /\ inv[p].result.token.claims.id = row.id

\* two users registered, and a login of the one registered first
C19_Witness ==
    /\ Cardinality(Registered) = 2
    /\ \E p \in Procs : /\ Done(p, "login") /\ Ok(p)
                        /\ \E row \in Registered : row.email = inv[p].email /\ row.id = 1

TokenClaimNames == {"id", "email", "name", "iat", "exp"}

\* the claims of token are those of the identity payload and the two times
IdentityClaimsOnly(token) ==
    /\ DOMAIN token.claims = TokenClaimNames
    /\ token.claims.email \in Emails
    /\ token.claims.name \in Names \cup {LegacyRow.name}
    /\ token.claims.id \in 1 .. nextId \cup {LegacyRow.id}

\* C20: a token minted by register, login or verify has the claims id, email,
\* name, iat and exp and no other: no password hash, no isActive.  For register
\* and login the three are those of the user returned, for verify those of the
\* token presented.
C20_TokenClaimsIdentityOnly ==
    /\ \A token \in held : IdentityClaimsOnly(token)
    /\ \A p \in Procs :
          (inv[p].pc = "done" /\ Ok(p)) =>
             /\ IdentityClaimsOnly(inv[p].result.token)
             /\ \A f \in {"id", "email", "name"} :
                   inv[p].result.token.claims[f] = inv[p].result.user[f]
             /\ inv[p].op = "verify" =>
                   \A f \in {"id", "email", "name"} :
                      inv[p].result.token.claims[f] = inv[p].token.claims[f]

\* a token of register and the token verify minted from a token
C20_Witness ==
    \E p, q \in Procs : /\ Done(p, "register") /\ Ok(p)
                        /\ Done(q, "verify") /\ Ok(q)

C20_WitnessLogin ==
    \E p \in Procs : Done(p, "login") /\ Ok(p) /\ inv[p].result.token \in held

\* the successful registers of this login's email and password that had
\* returned when it began
RegisteredBefore(p) ==
    {h \in inv[p].prior : h.password = inv[p].password /\ h.result.kind = "ok"}

LoginAfterRegister(p) ==
    Done(p, "login") /\ ~inv[p].faulted /\ RegisteredBefore(p) # {}

SameView(v, w) ==
    /\ DataFields(v) = {"id", "email", "name", "isActive"}
    /\ DataFields(w) = DataFields(v)
    /\ \A f \in DataFields(v) : v[f] = w[f]

\* C21 as claimed: a login with the credentials of a register that succeeded
\* succeeds, returns the user view register returned and a token that differs
\* from the one register returned, also when both are minted in one tick.
C21_LoginAfterRegisterNewToken ==
    \A p \in Procs :
       LoginAfterRegister(p) =>
          \A h \in RegisteredBefore(p) :
             /\ Ok(p)
             /\ SameView(inv[p].result.user, h.result.user)
             /\ inv[p].result.token # h.result.token

\* C21 as amended: such a login succeeds and returns the user view register
\* returned; its token differs from the one register returned exactly when it
\* is minted in a later tick, and is that very token when minted in the same.
C21_LoginAfterRegisterSameView ==
    \A p \in Procs :
       LoginAfterRegister(p) =>
          \A h \in RegisteredBefore(p) :
             /\ Ok(p)
             /\ SameView(inv[p].result.user, h.result.user)
             /\ (inv[p].result.token # h.result.token)
                   <=> (inv[p].mintAt > h.result.token.claims.iat)

\* such a login in a later tick than the register
C21_Witness ==
    \E p \in Procs :
       /\ LoginAfterRegister(p)
       /\ \E h \in RegisteredBefore(p) : inv[p].mintAt > h.result.token.claims.iat

\* such a login in the tick of the register
C21_WitnessSameTick ==
    \E p \in Procs :
       /\ LoginAfterRegister(p)
       /\ \E h \in RegisteredBefore(p) : inv[p].mintAt = h.result.token.claims.iat

StatusCodes == {400, 401, 404, 409, 500}

Failed(p) == inv[p].pc = "done" /\ inv[p].result.kind = "error"

\* C22: what goes out for a failure of register, login or verify has a status
\* among 400, 401, 404, 409 and 500, a message that is not empty and the time
\* of the failure, and these three only.
C22_FailureEnvelope ==
    \A p \in Procs :
       Failed(p) =>
          /\ DOMAIN inv[p].envelope = {"status", "message", "timestamp"}
          /\ inv[p].envelope.status \in StatusCodes
          /\ inv[p].envelope.status = inv[p].result.status
          /\ inv[p].envelope.message = inv[p].result.message
          /\ Len(inv[p].envelope.message) > 0
          /\ inv[p].envelope.timestamp = now

\* a 500 of register next to a 401 of verify, after the clock has moved
C22_Witness ==
    \E p, q \in Procs : /\ Failed(p) /\ inv[p].op = "register" /\ inv[p].envelope.status = 500
                        /\ Failed(q) /\ inv[q].op = "verify" /\ inv[q].envelope.status = 401
                        /\ inv[q].envelope.timestamp > 0

C22_WitnessConflict == \E p \in Procs : Failed(p) /\ inv[p].envelope.status = 409

C22_WitnessBadRequest ==
    \E p \in Procs : Failed(p) /\ inv[p].op = "login" /\ inv[p].envelope.status = 400

\* s has no character that is not whitespace
Blank(s) == \A i \in DOMAIN s : s[i] \in Whitespace

\* n is s without the whitespace around it
Stripped(n, s) ==
    /\ n # <<>> /\ n[1] \notin Whitespace /\ n[Len(n)] \notin Whitespace
    /\ \E i \in 0 .. Len(s) :
          /\ i + Len(n) <= Len(s)
          /\ SubSeq(s, i + 1, i + Len(n)) = n
          /\ \A k \in 1 .. Len(s) : (k <= i \/ k > i + Len(n)) => s[k] \in Whitespace

SameButName(u, v) == \A f \in {"id", "email", "password", "isActive"} : u[f] = v[f]

\* C23: updateName with an empty or whitespace-only newName throws and leaves
\* the name as it was; with any other newName it sets the name to newName
\* without the whitespace around it, which is not empty; id, email, password
\* and isActive stay as they were in both cases.
C23_UpdateNameTrimsOrThrows ==
    (entity.newName # NoArgument) =>
       /\ SameButName(entity.user, entity.before)
       /\ IF entity.newName = Undefined \/ Blank(entity.newName)
          THEN /\ entity.error = NameEmptyError
               /\ entity.user.name = entity.before.name
          ELSE /\ entity.error = NoError
               /\ Stripped(entity.user.name, entity.newName)

\* a name with whitespace on both sides set on a user whose name was empty,
\* and a whitespace-only name refused
C23_Witness ==
    /\ entity.newName = <<" ", "a", "\t">>
    /\ entity.before.name = <<>>
    /\ entity.user.name = <<"a">>

C23_WitnessBlank ==
    /\ entity.newName = <<" ", "\t">> /\ entity.error = NameEmptyError
    /\ entity.user.name = <<"a", "a">>

C23_WitnessInner == entity.newName = <<"a", " ", "a">> /\ entity.user.name = <<"a", " ", "a">>

\* a register whose user was saved and whose token could not be signed
SavedThenFailed(p) ==
    /\ Done(p, "register") /\ inv[p].faulted
    /\ inv[p].calls = <<"findByEmail", "hash", "save", "generateToken">>

\* the registers of this invocation's email that had saved a user and then
\* returned a failure when it began
HalfRegistered(p) == {h \in inv[p].prior : h.result.kind = "error"}

\* C24: register is not atomic across save and generateToken: when
\* generateToken fails after the save, the caller gets status 500 and the user
\* stays stored; a later register of the email fails as a duplicate, having
\* found the user, and a later login with the same credentials succeeds.
C24_SavedUserSurvivesTokenFailure ==
    \A p \in Procs :
       /\ SavedThenFailed(p) =>
             /\ inv[p].result.kind = "error" /\ inv[p].result.status = 500
             /\ inv[p].added # {} /\ inv[p].added \subseteq store
       /\ (Done(p, "register") /\ ~inv[p].faulted /\ HalfRegistered(p) # {}) =>
             /\ inv[p].result = Thrown(UserAlreadyExists)
             /\ inv[p].found # {} /\ inv[p].added = {}
       /\ (Done(p, "login") /\ ~inv[p].faulted) =>
             \A h \in HalfRegistered(p) :
                h.password = inv[p].password =>
                   /\ Ok(p)
                   /\ \A row \in h.added : inv[p].result.user.id = row.id

\* a login that succeeds after such a register
C24_Witness ==
    \E p \in Procs :
       /\ Done(p, "login") /\ Ok(p)
       /\ \E h \in HalfRegistered(p) : h.password = inv[p].password /\ h.result.status = 500

\* a register refused after such a register
C24_WitnessDuplicate ==
    \E p \in Procs : Done(p, "register") /\ ~inv[p].faulted /\ HalfRegistered(p) # {}

C24_WitnessFailure == \E p \in Procs : SavedThenFailed(p)

\* C25: every failure of verify has status 401 and the message "Invalid
\* token", whether verifyToken rejected the token or generateToken failed after
\* verifyToken accepted it; verify never fails with status 500.
C25_VerifyFailsInvalidToken ==
    \A p \in Procs :
       (Done(p, "verify") /\ ~Ok(p)) =>
          /\ inv[p].result = Thrown(InvalidToken)
          /\ inv[p].result.status = 401
          /\ inv[p].result.message = <<"Invalid token">>
          /\ inv[p].envelope.status = 401

\* generateToken failing on an accepted token, next to a rejected token
C25_Witness ==
    \E p, q \in Procs :
       /\ Done(p, "verify") /\ inv[p].raised = SignError
       /\ inv[p].calls = <<"verifyToken", "generateToken">>
       /\ Done(q, "verify") /\ ~Ok(q) /\ inv[q].calls = <<"verifyToken">>

\* hash is a bcrypt string made from plainText: the text is inside the digest
\* and nowhere else
HashOf(hash, plainText) ==
    /\ IsBcryptString(hash)
    /\ hash[2][1] = "salt"
    /\ hash[3] = <<"digest", plainText, hash[2]>>

\* C26: the password of every row register wrote is the output of hash on a
\* request's password, never that password; an invocation calls save only
\* after hash, with the user it built from the hash.
C26_StoredPasswordIsHash ==
    /\ \A row \in Registered : \E plainText \in Passwords : HashOf(row.password, plainText)
    /\ \A p \in Procs :
          inv[p].op = "register" =>
             /\ \A row \in inv[p].added : HashOf(row.password, inv[p].password)
             /\ \A i \in DOMAIN inv[p].calls :
                   inv[p].calls[i] = "save" => (i > 1 /\ inv[p].calls[i - 1] = "hash")
             /\ inv[p].pc = "save" =>
                   \A user \in inv[p].user : HashOf(user.password, inv[p].password)

\* a row that register stored, and a register about to save
C26_Witness ==
    /\ Registered # {}
    /\ \E p \in Procs : inv[p].op = "register" /\ inv[p].pc = "save"

C26_WitnessSaved == \E p \in Procs : Done(p, "register") /\ inv[p].added # {}

\* the invocation has called generateToken
Minting(invocation) ==
    \E i \in DOMAIN invocation.calls : invocation.calls[i] = "generateToken"

\* C27: register calls generateToken only after its save has stored the user,
\* login only after findByEmail returned the user and compare held for its
\* password; a register or a login that ends in a failure returns no token and
\* hands none to the caller.
C27_TokenOnlyAfterSaveOrCompare ==
    [][\A p \in Procs :
         /\ (inv'[p].op = "register" /\ (Minting(inv'[p]) \/ inv'[p].pc = "token")) =>
               /\ inv'[p].added # {} /\ inv'[p].added \subseteq store'
               /\ SubSeq(inv'[p].calls, 1, 3) = <<"findByEmail", "hash", "save">>
         /\ (inv'[p].op = "login" /\ (Minting(inv'[p]) \/ inv'[p].pc = "token")) =>
               /\ inv'[p].found # {}
               /\ \A user \in inv'[p].found :
                     \E row \in store' : row.id = user.id /\ row.email = inv'[p].email
               /\ \A user \in inv'[p].found : HashOf(user.password, inv'[p].password)
               /\ SubSeq(inv'[p].calls, 1, 2) = <<"findByEmail", "compare">>
         /\ (/\ inv[p].pc # "done" /\ inv'[p].pc = "done"
             /\ inv'[p].op \in {"register", "login"} /\ inv'[p].result.kind = "error") =>
               /\ inv'[p].result.token = NoToken
               /\ held' = held]_vars

\* a register refused at save and a login refused at compare, neither minting
C27_Witness ==
    \E p, q \in Procs :
       /\ SaveRejected(p) /\ ~Minting(inv[p])
       /\ Done(q, "login") /\ inv[q].calls = <<"findByEmail", "compare">> /\ ~Ok(q)

C27_WitnessMinted ==
    \E p, q \in Procs : /\ Done(p, "register") /\ Ok(p) /\ Minting(inv[p])
                        /\ Done(q, "login") /\ Ok(q) /\ Minting(inv[q])

\* slot p takes a step of login or verify
QueryStep(p) == inv'[p] # inv[p] /\ inv'[p].op \in {"login", "verify"}

\* slot p takes the step of register in which save stores the user
SaveStep(p) ==
    /\ inv[p].op = "register" /\ inv[p].pc = "save" /\ inv'[p].pc = "token"
    /\ inv'[p].added # {}

\* C28: no step of login or verify, whatever its input and outcome, changes the
\* stored rows or any field of one; the store changes only in the step of
\* register in which save succeeds, and by the one row that save adds.
C28_OnlySaveWrites ==
    [][/\ \A p \in Procs : QueryStep(p) => store' = store
       /\ store' # store =>
             \E p \in Procs : /\ SaveStep(p)
                              /\ store' = store \cup inv'[p].added
                              /\ Cardinality(store') = Cardinality(store) + 1]_vars

\* a login and a verify that succeeded
C28_Witness ==
    \E p, q \in Procs : /\ Done(p, "login") /\ Ok(p)
                        /\ Done(q, "verify") /\ Ok(q)

\* a login refused at compare and a verify that failed
C28_WitnessFailures ==
    \E p, q \in Procs : /\ Done(p, "login") /\ ~Ok(p) /\ inv[p].calls = <<"findByEmail", "compare">>
                        /\ Done(q, "verify") /\ ~Ok(q)

====
